---- MODULE Spec2Model ----
(***************************************************************************)
(* Model of the CPU emulator of src/cpu.py (class CPU): 256 memory cells,  *)
(* 8 registers, the program counter, the stack pointer attribute, the      *)
(* three comparison flags and the fetch/decode/dispatch loop of run().     *)
(*                                                                         *)
(* The emulator is written in Python, so the model keeps what Python does  *)
(* with the values the handlers compute:                                   *)
(*   - a register, a memory cell and the program counter hold unbounded    *)
(*     integers or (after DIV) floats; a value is the record               *)
(*     [f, n, d]: f says float, n/d is the reduced fraction (d = 1 for an  *)
(*     int);                                                               *)
(*   - a list subscript must be an int (TypeError for a float) in          *)
(*     -len .. len-1 (IndexError otherwise), a negative one counting from  *)
(*     the end;                                                            *)
(*   - an uncaught exception or sys.exit ends run(): err names it and no   *)
(*     further instruction executes.                                       *)
(***************************************************************************)
EXTENDS Integers, Sequences, FiniteSets, TLC

VARIABLES ram, reg, pc, sp, E_fl, L_fl, G_fl, running, out, err,
          steps, h1, h2, calls, retExpect, cmpEq, progLen

cpu == <<ram, reg, pc, sp, E_fl, L_fl, G_fl, running, out, err>>
vars == <<ram, reg, pc, sp, E_fl, L_fl, G_fl, running, out, err,
          steps, h1, h2, calls, retExpect, cmpEq, progLen>>

(* ------------------------------ bounds --------------------------------- *)
\* Instructions executed per run.
MaxSteps == 9
\* Instructions in the body of a generated control-flow program.
MaxBody == 2

(* --------------------------- program constants ------------------------- *)
RamSize == 256
NumRegs == 8
InitSp == 7

(* ------------------------------ values --------------------------------- *)
Abs(x) == IF x < 0 THEN -x ELSE x

RECURSIVE Gcd(_, _)
Gcd(a, b) == IF b = 0 THEN a ELSE Gcd(b, a % b)

\* floor(a / b) for any b # 0 (Python's //).
FloorDiv(a, b) == IF b > 0 THEN a \div b ELSE (-a) \div (-b)

IntV(n) == [f |-> FALSE, n |-> n, d |-> 1]

\* The value n/d (d # 0), a float when isFloat, in lowest terms.
MkV(isFloat, n, d) ==
    LET s == IF d < 0 THEN -1 ELSE 1
        g == Gcd(Abs(n), Abs(d))
    IN  [f |-> isFloat, n |-> (s * n) \div g, d |-> (s * d) \div g]

IsInt(v) == ~v.f
IsZero(v) == v.n = 0
NumEq(x, y) == x.n * y.d = y.n * x.d
NumLt(x, y) == x.n * y.d < y.n * x.d

\* x + y, x - y, x * y: an int when both are ints, a float otherwise.
PyAdd(x, y) ==
    IF IsInt(x) /\ IsInt(y) THEN IntV(x.n + y.n)
    ELSE MkV(TRUE, x.n * y.d + y.n * x.d, x.d * y.d)
PySub(x, y) ==
    IF IsInt(x) /\ IsInt(y) THEN IntV(x.n - y.n)
    ELSE MkV(TRUE, x.n * y.d - y.n * x.d, x.d * y.d)
PyMul(x, y) ==
    IF IsInt(x) /\ IsInt(y) THEN IntV(x.n * y.n)
    ELSE MkV(TRUE, x.n * y.n, x.d * y.d)
\* x / y, y # 0: true division, the result is always a float.
PyTrueDiv(x, y) == MkV(TRUE, x.n * y.d, x.d * y.n)
\* x % y, y # 0: the remainder takes the sign of the divisor.
PyMod(x, y) ==
    LET q == FloorDiv(x.n * y.d, x.d * y.n)
    IN  MkV(x.f \/ y.f, x.n * y.d - q * y.n * x.d, x.d * y.d)

\* Bitwise operators on Python ints (infinite two's complement).
RECURSIVE BitAnd(_, _)
BitAnd(x, y) ==
    IF x = 0 \/ y = 0 THEN 0
    ELSE IF x = -1 THEN y
    ELSE IF y = -1 THEN x
    ELSE 2 * BitAnd(x \div 2, y \div 2) + (x % 2) * (y % 2)

RECURSIVE BitOr(_, _)
BitOr(x, y) ==
    IF x = 0 THEN y
    ELSE IF y = 0 THEN x
    ELSE IF x = -1 \/ y = -1 THEN -1
    ELSE 2 * BitOr(x \div 2, y \div 2)
         + (IF x % 2 = 1 \/ y % 2 = 1 THEN 1 ELSE 0)

BitNot(x) == -x - 1

(* --------------------------- list subscripts --------------------------- *)
\* lst[i] succeeds.
IdxOK(i, len) == IsInt(i) /\ i.n >= -len /\ i.n < len
\* The position lst[i] names.
Idx(i, len) == IF i.n < 0 THEN i.n + len ELSE i.n
\* The exception lst[i] raises when it fails.
IdxErr(i) == IF IsInt(i) THEN "IndexError" ELSE "TypeError"

(* ------------------------------ op_codes ------------------------------- *)
\* The dispatch table of __init__: opcode byte -> handler.
op_codes ==
    (130 :> "LDI") @@ (71 :> "PRN") @@ (1 :> "HLT") @@ (69 :> "PUSH") @@
    (70 :> "POP") @@ (80 :> "CALL") @@ (17 :> "RET") @@ (84 :> "JMP") @@
    (85 :> "JEQ") @@ (86 :> "JNE") @@ (160 :> "ADD") @@ (161 :> "SUB") @@
    (162 :> "MUL") @@ (163 :> "DIV") @@ (164 :> "MOD") @@ (167 :> "CMP") @@
    (168 :> "AND") @@ (170 :> "OR") @@ (171 :> "XOR") @@ (105 :> "NOT") @@
    (172 :> "SHL") @@ (173 :> "SHR")

AluOps == {"ADD", "SUB", "MUL", "DIV", "MOD", "CMP", "AND", "OR", "XOR",
           "NOT", "SHL", "SHR"}

\* The byte that dispatches to handler name.
Code(name) == CHOOSE k \in DOMAIN op_codes : op_codes[k] = name

\* op_codes[IR] finds a handler: a dict key matches by numeric value, so
\* the float 130.0 finds the entry of 130.
HasKey(v) == v.d = 1 /\ v.n \in DOMAIN op_codes

(* ------------------------------- fetch --------------------------------- *)
ram_read(MAR) == ram[Idx(MAR, RamSize)]

PcPlus(k) == PyAdd(pc, IntV(k))

\* The three reads at the head of the loop of run() all succeed.
FetchOK == /\ IdxOK(pc, RamSize)
           /\ IdxOK(PcPlus(1), RamSize)
           /\ IdxOK(PcPlus(2), RamSize)

IR == ram_read(pc)
operand_a == ram_read(PcPlus(1))
operand_b == ram_read(PcPlus(2))

\* Mutant: the loop does not test self.running.
Live_m == err = "none" /\ steps < MaxSteps

\* run() is still looping: not halted, not ended by an exception.
Live == running /\ err = "none" /\ steps < MaxSteps

\* The loop has fetched an instruction that dispatches to handler name.
Dispatch(name) == Live /\ FetchOK /\ HasKey(IR) /\ op_codes[IR.n] = name

\* self.reg[i] succeeds; the slot it names.
RegOK(i) == IdxOK(i, NumRegs)
R(i) == Idx(i, NumRegs)

(* ------------------------- history (for the claims) --------------------- *)
\* h1 is the instruction executed last with the state it started from, h2
\* the one before it.
NoInstr == [op |-> "none", a |-> IntV(0), b |-> IntV(0), pc |-> IntV(0),
            reg |-> [i \in 0 .. NumRegs - 1 |-> IntV(0)], sp |-> InitSp,
            E |-> 0, L |-> 0, G |-> 0, out |-> <<>>]

Executed(name) ==
    [op |-> name,
     a |-> IF FetchOK THEN operand_a ELSE IntV(0),
     b |-> IF FetchOK THEN operand_b ELSE IntV(0),
     pc |-> pc, reg |-> reg, sp |-> sp, E |-> E_fl, L |-> L_fl, G |-> G_fl,
     out |-> out]

Top(s) == s[Len(s)]
Front(s) == SubSeq(s, 1, Len(s) - 1)

\* calls is the nesting of CALLs and PUSHes still open, kept only while the
\* executed instructions are CALL, RET, PUSH and POP that nest properly;
\* retExpect is <<p + 2>> right after the RET that closes the CALL executed
\* at p, and empty otherwise; progLen is the number of bytes load() stored.
Ghost(name, ok) ==
    /\ steps' = steps + 1
    /\ progLen' = progLen
    /\ h2' = h1
    /\ h1' = Executed(name)
    /\ calls' =
         IF ~ok THEN <<>>
         ELSE IF name = "CALL"
              THEN Append(calls, [k |-> "call", v |-> PcPlus(2)])
         ELSE IF name = "PUSH"
              THEN Append(calls, [k |-> "push", v |-> operand_a])
         ELSE IF name = "POP"
              THEN IF calls # <<>> /\ Top(calls) = [k |-> "push", v |-> operand_a]
                   THEN Front(calls) ELSE <<>>
         ELSE IF name = "RET"
              THEN IF calls # <<>> /\ Top(calls).k = "call"
                   THEN Front(calls) ELSE <<>>
         ELSE <<>>
    /\ retExpect' =
         IF ok /\ name = "RET" /\ calls # <<>> /\ Top(calls).k = "call"
         THEN <<Top(calls).v>> ELSE <<>>

(* -------------------------------- alu ----------------------------------- *)
\* The outcome of alu(op, reg_a, reg_b): the exception it ends with ("none"
\* when it returns), and the registers and flags it leaves.
AluRaise(e) == [err |-> e, reg |-> reg, E |-> E_fl, L |-> L_fl, G |-> G_fl]
\* Mutant: storing a result clears the flags.
AluStore_m(i, v) == [err |-> "none", reg |-> [reg EXCEPT ![R(i)] = v],
                     E |-> 0, L |-> 0, G |-> 0]

AluStore(i, v) == [err |-> "none", reg |-> [reg EXCEPT ![R(i)] = v],
                   E |-> E_fl, L |-> L_fl, G |-> G_fl]
AluFlags(e, l, g) == [err |-> "none", reg |-> reg, E |-> e, L |-> l, G |-> g]

\* Mutant: the result is stored into the second register.
AluTarget_m(reg_a, reg_b) == reg_b

\* The register an operation on (reg_a, reg_b) stores its result into.
AluTarget(reg_a, reg_b) == reg_a

\* Mutant: equal values are reported as less-than.
CmpFlags_m(x, y) ==
    IF NumLt(x, y) \/ NumEq(x, y) THEN AluFlags(0, 1, 0)
    ELSE AluFlags(0, 0, 1)

\* The flags CMP sets for the values x, y.
CmpFlags(x, y) ==
    IF NumLt(x, y) THEN AluFlags(0, 1, 0)
    ELSE IF NumLt(y, x) THEN AluFlags(0, 0, 1)
    ELSE AluFlags(1, 0, 0)

\* Mutant: a zero divisor yields 0 instead of raising.
AluDiv_m(dst, x, y) ==
    IF IsZero(y) THEN AluStore(dst, IntV(0))
    ELSE AluStore(dst, PyTrueDiv(x, y))

\* self.reg[reg_a] /= self.reg[reg_b], the result going to slot dst
AluDiv(dst, x, y) ==
    IF IsZero(y) THEN AluRaise("ZeroDivisionError")
    ELSE AluStore(dst, PyTrueDiv(x, y))

\* The MOD branch once reg[reg_b] has been read as y: `y is not 0` is false
\* only for the int 0; the float 0.0 passes the test and %= raises.
AluMod(reg_a, dst, y) ==
    IF IsInt(y) /\ IsZero(y) THEN AluRaise("SystemExit")
    ELSE IF ~RegOK(reg_a) THEN AluRaise(IdxErr(reg_a))
    ELSE IF IsZero(y) THEN AluRaise("ZeroDivisionError")
    ELSE AluStore(dst, PyMod(reg[R(reg_a)], y))

\* Mutant: the expression of XOR without its second factor.
XorExpr_m(a, b) == BitOr(a, b)

\* (a | b) & ~(a & b)
XorExpr(a, b) == BitAnd(BitOr(a, b), BitNot(BitAnd(a, b)))

\* x << y and x >> y are evaluated and the result is dropped.
AluShift(x, y) ==
    IF ~IsInt(x) \/ ~IsInt(y) THEN AluRaise("TypeError")
    ELSE IF y.n < 0 THEN AluRaise("ValueError")
    ELSE AluRaise("none")

\* The two-register operations, x = reg[reg_a] and y = reg[reg_b] read, the
\* result going to slot dst.
AluBinary(op, dst, x, y) ==
    IF op = "ADD" THEN AluStore(dst, PyAdd(x, y))
    ELSE IF op = "SUB" THEN AluStore(dst, PySub(x, y))
    ELSE IF op = "MUL" THEN AluStore(dst, PyMul(x, y))
    ELSE IF op = "DIV" THEN AluDiv(dst, x, y)
    ELSE IF op = "CMP" THEN CmpFlags(x, y)
    ELSE IF op \in {"SHL", "SHR"} THEN AluShift(x, y)
    ELSE IF ~IsInt(x) \/ ~IsInt(y) THEN AluRaise("TypeError")
    ELSE IF op = "AND" THEN AluStore(dst, IntV(BitAnd(x.n, y.n)))
    ELSE IF op = "OR" THEN AluStore(dst, IntV(BitOr(x.n, y.n)))
    ELSE AluStore(dst, IntV(XorExpr(x.n, y.n)))

alu(op, reg_a, reg_b) ==
    IF op = "NOT"
    THEN IF ~RegOK(reg_a) THEN AluRaise(IdxErr(reg_a))
         ELSE IF ~IsInt(reg[R(reg_a)]) THEN AluRaise("TypeError")
         ELSE AluStore(reg_a, IntV(BitNot(reg[R(reg_a)].n)))
    ELSE IF op = "MOD"
    THEN IF ~RegOK(reg_b) THEN AluRaise(IdxErr(reg_b))
         ELSE AluMod(reg_a, AluTarget(reg_a, reg_b), reg[R(reg_b)])
    ELSE IF ~RegOK(reg_a) THEN AluRaise(IdxErr(reg_a))
    ELSE IF ~RegOK(reg_b) THEN AluRaise(IdxErr(reg_b))
    ELSE AluBinary(op, AluTarget(reg_a, reg_b), reg[R(reg_a)], reg[R(reg_b)])

(* ------------------------------ handlers -------------------------------- *)
\* Mutant: every instruction is taken to be one byte longer.
Advance_m(k) == PcPlus(k + 1)

\* self.pc += k
Advance(k) == PcPlus(k)

\* Mutant: POP forgets to increment the stack pointer.
PopSp_m(s) == s

\* self.sp -= 1 (PUSH) and self.sp += 1 (POP)
PushSp(s) == s - 1
PopSp(s) == s + 1

\* return_address = self.pc + 2
ReturnAddress == PcPlus(2)

\* Mutant: JEQ tests the less-than flag.
JeqTaken_m == L_fl = 1

\* The tests of JEQ and JNE.
JeqTaken == E_fl = 1
JneTaken == E_fl # 1

\* Mutant: PRN prints its operand, not the register it names.
PrnValue_m(operand) == operand

\* What print() is given by PRN.
PrnValue(operand) == reg[R(operand)]

LDI ==
    /\ Dispatch("LDI")
    /\ IF RegOK(operand_a)
       THEN /\ reg' = [reg EXCEPT ![R(operand_a)] = operand_b]
            /\ pc' = Advance(3)
            /\ err' = err
       ELSE /\ err' = IdxErr(operand_a)
            /\ UNCHANGED <<reg, pc>>
    /\ UNCHANGED <<ram, sp, E_fl, L_fl, G_fl, running, out, cmpEq>>
    /\ Ghost("LDI", RegOK(operand_a))

PRN ==
    /\ Dispatch("PRN")
    /\ IF RegOK(operand_a)
       THEN /\ out' = Append(out, PrnValue(operand_a))
            /\ pc' = Advance(2)
            /\ err' = err
       ELSE /\ err' = IdxErr(operand_a)
            /\ UNCHANGED <<out, pc>>
    /\ UNCHANGED <<ram, reg, sp, E_fl, L_fl, G_fl, running, cmpEq>>
    /\ Ghost("PRN", RegOK(operand_a))

HLT ==
    /\ Dispatch("HLT")
    /\ running' = FALSE
    /\ UNCHANGED <<ram, reg, pc, sp, E_fl, L_fl, G_fl, out, err, cmpEq>>
    /\ Ghost("HLT", TRUE)

\* The decrement of sp is done before the register read or the memory write
\* can raise.
PUSH ==
    /\ Dispatch("PUSH")
    /\ LET s == PushSp(sp)
           ok == RegOK(operand_a) /\ IdxOK(IntV(s), RamSize)
       IN  /\ sp' = s
           /\ IF ok
              THEN /\ ram' = [ram EXCEPT ![Idx(IntV(s), RamSize)] = reg[R(operand_a)]]
                   /\ pc' = Advance(2)
                   /\ err' = err
              ELSE /\ err' = IF RegOK(operand_a) THEN "IndexError"
                             ELSE IdxErr(operand_a)
                   /\ UNCHANGED <<ram, pc>>
           /\ Ghost("PUSH", ok)
    /\ UNCHANGED <<reg, E_fl, L_fl, G_fl, running, out, cmpEq>>

POP ==
    /\ Dispatch("POP")
    /\ LET ok == IdxOK(IntV(sp), RamSize) /\ RegOK(operand_a)
       IN  /\ IF ok
              THEN /\ reg' = [reg EXCEPT ![R(operand_a)] = ram[Idx(IntV(sp), RamSize)]]
                   /\ sp' = PopSp(sp)
                   /\ pc' = Advance(2)
                   /\ err' = err
              ELSE /\ err' = IF IdxOK(IntV(sp), RamSize) THEN IdxErr(operand_a)
                             ELSE "IndexError"
                   /\ UNCHANGED <<reg, sp, pc>>
           /\ Ghost("POP", ok)
    /\ UNCHANGED <<ram, E_fl, L_fl, G_fl, running, out, cmpEq>>

\* CALL and RET address memory through the register slot reg[self.sp].
\* CALL has decremented that slot before the memory write can raise, and has
\* written memory before the read of the target register can raise.
CALL ==
    /\ Dispatch("CALL")
    /\ LET spOK == IdxOK(IntV(sp), NumRegs)
           slot == Idx(IntV(sp), NumRegs)
           top == PySub(reg[slot], IntV(1))
           reg1 == [reg EXCEPT ![slot] = top]
           memOK == spOK /\ IdxOK(top, RamSize)
           ok == memOK /\ RegOK(operand_a)
       IN  /\ reg' = IF spOK THEN reg1 ELSE reg
           /\ ram' = IF memOK
                     THEN [ram EXCEPT ![Idx(top, RamSize)] = ReturnAddress]
                     ELSE ram
           /\ pc' = IF ok THEN reg1[R(operand_a)] ELSE pc
           /\ err' = IF ok THEN err
                     ELSE IF ~spOK THEN "IndexError"
                     ELSE IF ~memOK THEN IdxErr(top)
                     ELSE IdxErr(operand_a)
           /\ Ghost("CALL", ok)
    /\ UNCHANGED <<sp, E_fl, L_fl, G_fl, running, out, cmpEq>>

RET ==
    /\ Dispatch("RET")
    /\ LET spOK == IdxOK(IntV(sp), NumRegs)
           slot == Idx(IntV(sp), NumRegs)
           ok == spOK /\ IdxOK(reg[slot], RamSize)
       IN  /\ IF ok
              THEN /\ pc' = ram[Idx(reg[slot], RamSize)]
                   /\ reg' = [reg EXCEPT ![slot] = PyAdd(reg[slot], IntV(1))]
                   /\ err' = err
              ELSE /\ err' = IF spOK THEN IdxErr(reg[slot]) ELSE "IndexError"
                   /\ UNCHANGED <<pc, reg>>
           /\ Ghost("RET", ok)
    /\ UNCHANGED <<ram, sp, E_fl, L_fl, G_fl, running, out, cmpEq>>

\* Mutant: a jump advances pc by 2 after loading it.
Jump_m(name) ==
    /\ IF RegOK(operand_a)
       THEN pc' = PyAdd(reg[R(operand_a)], IntV(2)) /\ err' = err
       ELSE err' = IdxErr(operand_a) /\ pc' = pc
    /\ Ghost(name, RegOK(operand_a))

\* JMP(operand_a, operand_b), also the taken branch of JEQ and JNE.
Jump(name) ==
    /\ IF RegOK(operand_a)
       THEN pc' = reg[R(operand_a)] /\ err' = err
       ELSE err' = IdxErr(operand_a) /\ pc' = pc
    /\ Ghost(name, RegOK(operand_a))

FallThrough(name) ==
    /\ pc' = Advance(2)
    /\ err' = err
    /\ Ghost(name, TRUE)

JMP ==
    /\ Dispatch("JMP")
    /\ Jump("JMP")
    /\ UNCHANGED <<ram, reg, sp, E_fl, L_fl, G_fl, running, out, cmpEq>>

JEQ ==
    /\ Dispatch("JEQ")
    /\ IF JeqTaken THEN Jump("JEQ") ELSE FallThrough("JEQ")
    /\ UNCHANGED <<ram, reg, sp, E_fl, L_fl, G_fl, running, out, cmpEq>>

JNE ==
    /\ Dispatch("JNE")
    /\ IF JneTaken THEN Jump("JNE") ELSE FallThrough("JNE")
    /\ UNCHANGED <<ram, reg, sp, E_fl, L_fl, G_fl, running, out, cmpEq>>

\* A handler that delegates to alu and then advances pc by 3; an exception
\* in alu leaves pc alone.
AluStep(name) ==
    /\ Dispatch(name)
    /\ LET r == alu(name, operand_a, operand_b)
       IN  /\ reg' = r.reg
           /\ E_fl' = r.E
           /\ L_fl' = r.L
           /\ G_fl' = r.G
           /\ err' = r.err
           /\ pc' = IF r.err = "none" THEN Advance(3) ELSE pc
           /\ cmpEq' = IF name = "CMP" /\ r.err = "none"
                       THEN (IF r.E = 1 THEN "yes" ELSE "no")
                       ELSE cmpEq
           /\ Ghost(name, r.err = "none")
    /\ UNCHANGED <<ram, sp, running, out>>

ADD == AluStep("ADD")
SUB == AluStep("SUB")
MUL == AluStep("MUL")
DIV == AluStep("DIV")
MOD == AluStep("MOD")
CMP == AluStep("CMP")
AND == AluStep("AND")
OR == AluStep("OR")
XOR == AluStep("XOR")
NOT == AluStep("NOT")
SHL == AluStep("SHL")
SHR == AluStep("SHR")

(* --------------------------------- run ---------------------------------- *)
\* One of the three ram_read calls at the head of the loop raises.
FetchError ==
    /\ Live
    /\ ~FetchOK
    /\ err' = IdxErr(pc)
    /\ UNCHANGED <<ram, reg, pc, sp, E_fl, L_fl, G_fl, running, out, cmpEq>>
    /\ Ghost("fetch", FALSE)

\* Mutant: the unknown byte is skipped before the run ends.
UnknownOpcode_m ==
    /\ Live
    /\ FetchOK
    /\ ~HasKey(IR)
    /\ err' = "KeyError"
    /\ pc' = PcPlus(1)
    /\ UNCHANGED <<ram, reg, sp, E_fl, L_fl, G_fl, running, out, cmpEq>>
    /\ Ghost("unknown", FALSE)

\* self.op_codes[IR] raises KeyError: the else branch of run() that prints
\* 'Unknown command' is never reached.
UnknownOpcode ==
    /\ Live
    /\ FetchOK
    /\ ~HasKey(IR)
    /\ err' = "KeyError"
    /\ UNCHANGED <<ram, reg, pc, sp, E_fl, L_fl, G_fl, running, out, cmpEq>>
    /\ Ghost("unknown", FALSE)

(* ------------------------------ programs -------------------------------- *)
\* The program images given to load(): one byte per line of the file.
I1(name) == <<Code(name)>>
I2(name, a) == <<Code(name), a>>
I3(name, a, b) == <<Code(name), a, b>>

RECURSIVE Flatten(_)
Flatten(ss) == IF ss = <<>> THEN <<>> ELSE Head(ss) \o Flatten(Tail(ss))

\* All sequences over S of length 0 .. n.
RECURSIVE SeqsUpTo(_, _)
SeqsUpTo(S, n) ==
    IF n = 0 THEN {<<>>}
    ELSE LET shorter == SeqsUpTo(S, n - 1)
         IN  shorter \cup {Append(q, x) : q \in shorter, x \in S}

Registers == 0 .. NumRegs - 1
Bytes == 0 .. 255

\* LDI r,v ; PRN r ; HLT
ProgLdiPrn(r, v) == I3("LDI", r, v) \o I2("PRN", r) \o I1("HLT")

\* LDI R0,x ; LDI R1,y ; i1 ; i2 ; PRN R0 ; HLT
ProgAlu(x, y, i1, i2) ==
    I3("LDI", 0, x) \o I3("LDI", 1, y) \o i1 \o i2 \o I2("PRN", 0) \o I1("HLT")

AluInstrs == {I3(op, a, b) : op \in AluOps, a \in {0, 1}, b \in {0, 1}}
PrepInstrs == {I3("SUB", 0, 1), I3("SUB", 1, 0), I3("DIV", 0, 1),
               I3("DIV", 1, 0), I3("NOT", 0, 0), I3("NOT", 1, 0),
               I3("ADD", 0, 0), I3("MUL", 0, 1)}
\* x / y and y / x are exact in binary floating point for these inputs, so
\* the fraction kept for a float is the float the machine holds.
AluInputs == {<<0, 0>>, <<0, 3>>, <<6, 0>>, <<6, 3>>, <<6, 6>>, <<3, 6>>}

\* LDI r,v three times (the stack grows down from address 6, over bytes
\* already executed) ; PUSH r ; POP r ; HLT
ProgPushPop(r, v) ==
    I3("LDI", r, v) \o I3("LDI", r, v) \o I3("LDI", r, v)
    \o I2("PUSH", r) \o I2("POP", r) \o I1("HLT")

\* LDI R0,t ; LDI R1,v ; LDI R7,s ; body ; HLT, the body starting at 9.
ProgCtl(t, v, s, body) ==
    I3("LDI", 0, t) \o I3("LDI", 1, v) \o I3("LDI", 7, s)
    \o Flatten(body) \o I1("HLT")

CtlInstrs == {I2("PUSH", 1), I2("POP", 1), I2("CALL", 0), I1("RET"),
              I2("JMP", 0), I2("JEQ", 0), I2("JNE", 0), I3("CMP", 0, 1)}
CtlInputs == {<<11, 5, 0>>, <<11, 11, 7>>, <<9, 5, 7>>, <<254, 254, 0>>}

\* LDI R0,t ; LDI R1,v ; LDI R2,3 ; CMP R0,R1 ; mid ; jump R0 ; HLT with the
\* jump (JEQ or JNE) at 12 + Len(mid) and one instruction between it and
\* the CMP.
ProgCmpJump(t, v, mid, jump) ==
    I3("LDI", 0, t) \o I3("LDI", 1, v) \o I3("LDI", 2, 3) \o I3("CMP", 0, 1)
    \o mid \o I2(jump, 0) \o I1("HLT")

MidInstrs == {I2("PUSH", 1), I2("POP", 2), I2("PRN", 1), I3("LDI", 2, 1),
              I3("ADD", 2, 2), I3("SUB", 2, 1), I3("MUL", 2, 2),
              I3("DIV", 2, 2), I3("MOD", 2, 2), I3("AND", 2, 1),
              I3("OR", 2, 1), I3("XOR", 2, 1), I3("NOT", 2, 0),
              I3("SHL", 2, 2), I3("SHR", 2, 2), I2("JEQ", 2), I2("JNE", 2)}
CmpJumpInputs == {<<20, 20>>, <<20, 5>>, <<5, 20>>}

\* A subroutine that saves a register around an inner call:
\*    0: LDI R0,12   3: LDI R1,20   6: LDI R2,0   9: CALL R0   11: HLT
\*   12: PUSH R2    14: CALL R1    16: POP R2    18: RET       19: HLT
\*   20: RET
ProgNested ==
    I3("LDI", 0, 12) \o I3("LDI", 1, 20) \o I3("LDI", 2, 0) \o I2("CALL", 0)
    \o I1("HLT") \o I2("PUSH", 2) \o I2("CALL", 1) \o I2("POP", 2)
    \o I1("RET") \o I1("HLT") \o I1("RET")

\* LDI R0,x ; LDI R1,y ; op R0,R1 ; use R0 ; HLT: the result of an
\* arithmetic operation is stored in memory or becomes the program counter.
ProgStore(x, y, op, use) ==
    I3("LDI", 0, x) \o I3("LDI", 1, y) \o I3(op, 0, 1) \o I2(use, 0)
    \o I1("HLT")

StoreInputs == {<<0, 3>>, <<3, 6>>, <<255, 255>>, <<253, 0>>}
StoreOps == {"ADD", "SUB", "MUL", "DIV"}
StoreUses == {"PUSH", "CALL", "JMP"}

\* LDI R0,6 ; LDI R1,v ; CMP R0,c ; bad ; HLT, where bad names a register
\* that does not exist.
ProgBadReg(v, c, bad) ==
    I3("LDI", 0, 6) \o I3("LDI", 1, v) \o I3("CMP", 0, c) \o bad \o I1("HLT")

BadRegInstrs ==
    {I3(op, ab[1], ab[2]) :
        op \in AluOps \cup {"LDI"},
        ab \in {<<8, 0>>, <<0, 8>>, <<8, 1>>, <<255, 255>>}}
    \cup {I2(op, a) :
            op \in {"PRN", "PUSH", "POP", "CALL", "JMP", "JEQ", "JNE"},
            a \in {8, 255}}

\* LDI R7,20 ; CALL R7 ; HLT: the target register is the slot reg[self.sp]
\* that CALL decrements.
ProgCallSp == I3("LDI", 7, 20) \o I2("CALL", 7) \o I1("HLT")

Programs ==
    {ProgLdiPrn(r, v) : r \in Registers, v \in Bytes}
    \cup {ProgCallSp}
    \cup {ProgStore(xy[1], xy[2], op, use) :
            xy \in StoreInputs, op \in StoreOps, use \in StoreUses}
    \cup {ProgBadReg(v, c, bad) :
            v \in {0, 3}, c \in {0, 1}, bad \in BadRegInstrs}
    \cup {ProgAlu(xy[1], xy[2], i1, i2) :
            xy \in AluInputs, i1 \in PrepInstrs, i2 \in AluInstrs}
    \cup {ProgPushPop(r, v) : r \in Registers, v \in {0, 9, 255}}
    \cup {ProgCtl(c[1], c[2], c[3], body) :
            c \in CtlInputs, body \in SeqsUpTo(CtlInstrs, MaxBody)}
    \cup {ProgCmpJump(c[1], c[2], mid, jump) :
            c \in CmpJumpInputs, mid \in MidInstrs, jump \in {"JEQ", "JNE"}}
    \cup {ProgNested}

\* load(): the bytes of the file go to ram[0], ram[1], ...
load(program) ==
    [address \in 0 .. RamSize - 1 |->
        IF address < Len(program) THEN IntV(program[address + 1]) ELSE IntV(0)]

(* ------------------------------ specification --------------------------- *)
\* The machine as __init__ leaves it, with a program loaded.
Init ==
    /\ \E program \in Programs :
          /\ ram = load(program)
          /\ progLen = Len(program)
    /\ reg = [i \in Registers |-> IntV(0)]
    /\ pc = IntV(0)
    /\ sp = InitSp
    /\ E_fl = 0
    /\ L_fl = 0
    /\ G_fl = 0
    /\ running = TRUE
    /\ out = <<>>
    /\ err = "none"
    /\ steps = 0
    /\ h1 = NoInstr
    /\ h2 = NoInstr
    /\ calls = <<>>
    /\ retExpect = <<>>
    /\ cmpEq = "none"

Next ==
    \/ LDI \/ PRN \/ HLT \/ PUSH \/ POP \/ CALL \/ RET \/ JMP \/ JEQ \/ JNE
    \/ ADD \/ SUB \/ MUL \/ DIV \/ MOD \/ CMP \/ AND \/ OR \/ XOR \/ NOT
    \/ SHL \/ SHR \/ FetchError \/ UnknownOpcode

Spec == Init /\ [][Next]_vars

\* run() is one sequential loop: as long as it is running, the handler of
\* the instruction at pc is executed. Fairness is stated for the handlers
\* the liveness claim relies on.
FairSpec == Spec /\ WF_vars(LDI) /\ WF_vars(PRN) /\ WF_vars(HLT)

(* ================================ claims ================================ *)
Plus(v, k) == PyAdd(v, IntV(k))
\* The last instruction, or the last two, ran to completion.
Done1(name) == h1.op = name /\ err = "none"
Done2(first, second) == h2.op = first /\ h1.op = second /\ err = "none"
\* v is a register number 0 .. 7 as the claims mean it.
IsReg(v) == IsInt(v) /\ v.n \in Registers

\* C1: after the RET that closes a CALL executed at p, with only properly
\* nested CALL/RET and PUSH/POP pairs executed in between, pc = p + 2.
C1_CallRetPairing == retExpect # <<>> => pc = retExpect[1]

\* C2: PUSH r immediately followed by POP r leaves register r and the stack
\* pointer as they were before the PUSH.
C2_PushPopInverse ==
    (Done2("PUSH", "POP") /\ h1.a = h2.a /\ IsReg(h1.a))
    => /\ reg[h1.a.n] = h2.reg[h1.a.n]
       /\ sp = h2.sp

C2_Witness ==
    /\ Done2("PUSH", "POP")
    /\ h1.a = IntV(7) /\ h2.a = IntV(7)
    /\ h2.reg[7] = IntV(255)
    /\ reg[7] = IntV(255)

C5_DivModByZero ==
    (h1.op \in {"DIV", "MOD"} /\ IsReg(h1.a) /\ IsReg(h1.b)
        /\ h1.reg[h1.b.n].n = 0)
    => /\ err \in {"ZeroDivisionError", "SystemExit"}
       /\ reg = h1.reg
       /\ ~ENABLED Next

C5_Witness ==
    /\ h1.op = "DIV"
    /\ h1.reg[h1.a.n] = IntV(6) /\ h1.reg[h1.b.n] = IntV(0)
    /\ err = "ZeroDivisionError"
    /\ reg = h1.reg

\* The run ends here with the machine state (pc, registers, flags, stack
\* pointer, memory, output) untouched.
StopsUntouched ==
    UNCHANGED <<pc, reg, ram, sp, E_fl, L_fl, G_fl, running, out>>

\* C6 as stated: whenever the byte at ram[pc] is not a key of op_codes, the
\* run ends in the unknown-opcode error with pc and the rest of the machine
\* state untouched.
C6_Original ==
    [][(Live /\ IdxOK(pc, RamSize) /\ ~HasKey(ram_read(pc)))
       => (err' = "KeyError" /\ StopsUntouched)]_vars

\* C6, amended: when the three reads at pc, pc + 1 and pc + 2 succeed and the
\* byte at ram[pc] is not a key of op_codes, the run ends in the
\* unknown-opcode error (KeyError) with pc and the rest of the machine state
\* untouched.
C6_UnknownOpcode ==
    [][(Live /\ FetchOK /\ ~HasKey(ram_read(pc)))
       => (err' = "KeyError" /\ StopsUntouched)]_vars

C6_Witness ==
    /\ err = "KeyError"
    /\ h1.op = "unknown"
    /\ pc = h1.pc
    /\ pc.n > 0
    /\ ~HasKey(ram_read(pc))

\* C7: LDI r,v then PRN r, for r in 0..7 and v in 0..255, appends exactly v
\* to the output and advances pc by 5 in all.
C7_LdiPrn ==
    (Done2("LDI", "PRN") /\ h1.a = h2.a /\ IsReg(h2.a)
        /\ IsInt(h2.b) /\ h2.b.n \in Bytes)
    => /\ out = Append(h2.out, IntV(h2.b.n))
       /\ pc = Plus(h2.pc, 5)

C7_Witness ==
    /\ Done2("LDI", "PRN")
    /\ h1.a = IntV(7) /\ h2.a = IntV(7)
    /\ h2.b = IntV(255)
    /\ out = <<IntV(255)>>
    /\ pc = IntV(5)

\* The image of LDI R0,8 ; PRN R0 ; HLT.
E2EImage == load(<<130, 0, 8, 71, 0, 1>>)
E2EStart == steps = 0 /\ ram = E2EImage
E2EHalted ==
    /\ ram = E2EImage
    /\ running = FALSE
    /\ out = <<IntV(8)>>
    /\ err = "none"

\* C8: from the fresh machine holding LDI R0,8 ; PRN R0 ; HLT the run reaches
\* the halted state with running = FALSE and the single output 8, and never
\* enters an error state or prints anything else on the way.
C8_EndToEnd ==
    /\ E2EStart ~> E2EHalted
    /\ [](ram = E2EImage => (err = "none" /\ out \in {<<>>, <<IntV(8)>>}))
    /\ [][(ram = E2EImage /\ ~running) => UNCHANGED cpu]_vars

C8_Witness == E2EHalted /\ steps = 3 /\ pc = IntV(5)

\* C9 as stated: an ALU operation on regA, regB in 0..7 leaves register regB
\* as it was.
C9_Original ==
    (h1.op \in AluOps /\ IsReg(h1.a) /\ IsReg(h1.b))
    => reg[h1.b.n] = h1.reg[h1.b.n]

\* C9, amended: an ALU operation on two different registers regA # regB in
\* 0..7 leaves register regB as it was.
C9_RegBUnchanged ==
    (h1.op \in AluOps /\ IsReg(h1.a) /\ IsReg(h1.b) /\ h1.a # h1.b)
    => reg[h1.b.n] = h1.reg[h1.b.n]

C9_Witness ==
    /\ Done1("SUB")
    /\ h1.a = IntV(0) /\ h1.b = IntV(1)
    /\ h1.reg[1] = IntV(6)
    /\ reg[0] # h1.reg[0]
    /\ reg[1] = IntV(6)

\* C10: CALL and RET work on the stack of PUSH and POP: CALL decrements the
\* stack pointer and stores the return address at ram[sp], RET loads pc from
\* ram[sp] and increments the stack pointer; so PUSH r then RET sets pc to
\* the value of r, and CALL then POP r loads the return address into r.
C10_SharedStack ==
    /\ Done1("CALL")
       => (sp = h1.sp - 1 /\ ram[Idx(IntV(sp), RamSize)] = Plus(h1.pc, 2))
    /\ Done1("RET")
       => (sp = h1.sp + 1 /\ pc = ram[Idx(IntV(h1.sp), RamSize)])
    /\ (Done2("PUSH", "RET") /\ IsReg(h2.a)) => pc = h2.reg[h2.a.n]
    /\ (Done2("CALL", "POP") /\ IsReg(h1.a)) => reg[h1.a.n] = Plus(h2.pc, 2)

(* ------------------------------ C11 .. C20 ------------------------------ *)
\* C11: every one of the 256 memory cells holds an integer in 0..255.
C11_MemoryCells ==
    \A a \in 0 .. RamSize - 1 : IsInt(ram[a]) /\ ram[a].n \in Bytes

\* a is an address 0 .. 255.
InRange(a) == IsInt(a) /\ a.n \in 0 .. RamSize - 1

\* The memory subscripts of the next turn of the loop: the three of the
\* fetch, and the one of the PUSH, POP, CALL or RET it dispatches to.
Accessed ==
    {pc, PcPlus(1), PcPlus(2)}
    \cup (IF Dispatch("PUSH") /\ RegOK(operand_a) THEN {IntV(PushSp(sp))}
          ELSE IF Dispatch("POP") THEN {IntV(sp)}
          ELSE IF Dispatch("CALL") /\ IdxOK(IntV(sp), NumRegs)
               THEN {PySub(reg[Idx(IntV(sp), NumRegs)], IntV(1))}
          ELSE IF Dispatch("RET") /\ IdxOK(IntV(sp), NumRegs)
               THEN {reg[Idx(IntV(sp), NumRegs)]}
          ELSE {})

\* C12: a turn of the loop that subscripts memory with an address outside
\* 0..255 (in the fetch or in PUSH, POP, CALL, RET) ends the run in an error
\* state and changes no memory cell.
C12_AddressRange ==
    [][(Live /\ \E a \in Accessed : ~InRange(a))
       => (err' # "none" /\ ram' = ram)]_vars

\* The instruction fetched names, as a register operand, a number outside
\* 0..7 (NOT has the one operand).
BadRegOperand ==
    /\ Live /\ FetchOK /\ HasKey(IR)
    /\ \/ /\ op_codes[IR.n] \in {"LDI", "PRN", "PUSH", "POP", "CALL", "JMP",
                                 "JEQ", "JNE", "NOT"}
          /\ ~IsReg(operand_a)
       \/ /\ op_codes[IR.n] \in AluOps \ {"NOT"}
          /\ (~IsReg(operand_a) \/ ~IsReg(operand_b))

\* C13: executing an instruction with a register operand outside 0..7 ends
\* the run in a register-index error state with every register, memory
\* cell, flag, the stack pointer and pc as before the instruction.
C13_BadRegister ==
    [][BadRegOperand
       => (/\ err' = "IndexError"
           /\ UNCHANGED <<reg, ram, E_fl, L_fl, G_fl, sp, pc>>)]_vars

\* C14: a completed LDI or ALU instruction advances pc by 3; a completed
\* PRN, PUSH or POP by 2; CALL, JMP and a taken JEQ or JNE leave in pc the
\* value of the target register and RET the return address it read, with
\* nothing added.
C14_PcAdvance ==
    /\ (err = "none" /\ h1.op \in AluOps \cup {"LDI"}) => pc = Plus(h1.pc, 3)
    /\ (err = "none" /\ h1.op \in {"PRN", "PUSH", "POP"})
       => pc = Plus(h1.pc, 2)
    /\ (Done1("CALL") \/ Done1("JMP") \/ (Done1("JEQ") /\ h1.E = 1)
          \/ (Done1("JNE") /\ h1.E # 1))
       => pc = reg[R(h1.a)]
    /\ Done1("RET")
       => pc = ram[Idx(h1.reg[Idx(IntV(h1.sp), NumRegs)], RamSize)]

C14_Witness ==
    /\ Done2("CALL", "RET")
    /\ pc = Plus(h2.pc, 2)
    /\ h1.pc = h2.reg[R(h2.a)]
    /\ pc # Plus(h1.pc, 1)

\* C15: running is TRUE in the initial state; in every reachable state
\* running is FALSE iff an HLT has been executed, and once it is FALSE no
\* further instruction is fetched or executed.
C15_Running ==
    /\ steps = 0 => running
    /\ ~running <=> h1.op = "HLT"
    /\ ~running => ~ENABLED Next

C15_Witness ==
    /\ ~running
    /\ h1.op = "HLT"
    /\ h2.op = "PRN"
    /\ err = "none"

\* The last instruction was op a,b on two registers 0..7 holding integers.
OnIntegers(name) ==
    /\ h1.op = name
    /\ IsReg(h1.a) /\ IsReg(h1.b)
    /\ IsInt(h1.reg[h1.a.n]) /\ IsInt(h1.reg[h1.b.n])

\* C16: DIV a,b with reg[b] # 0 leaves in reg[a] the integer quotient of
\* the prior reg[a] by reg[b], and every register holds an integer in every
\* reachable state.
C16_DivInteger ==
    /\ \A i \in Registers : IsInt(reg[i])
    /\ (OnIntegers("DIV") /\ h1.reg[h1.b.n].n # 0)
       => /\ err = "none"
          /\ reg[h1.a.n] =
               IntV(FloorDiv(h1.reg[h1.a.n].n, h1.reg[h1.b.n].n))

\* The largest shift count the shift claim is evaluated for.
MaxShift == 8

\* C17: SHL a,b stores reg[a] * 2^reg[b] in reg[a] and SHR a,b stores
\* reg[a] \div 2^reg[b], for non-negative integers reg[a], reg[b].
C17_Shifts ==
    \A name \in {"SHL", "SHR"} :
        (/\ OnIntegers(name)
         /\ h1.reg[h1.a.n].n >= 0
         /\ h1.reg[h1.b.n].n \in 0 .. MaxShift)
        => LET x == h1.reg[h1.a.n].n
               k == 2 ^ h1.reg[h1.b.n].n
           IN  /\ err = "none"
               /\ reg[h1.a.n] = IntV(IF name = "SHL" THEN x * k ELSE x \div k)

\* C18: for a program of progLen bytes at 0 .. progLen - 1, a PUSH executed
\* while fewer than 256 - progLen values are on the stack writes no address
\* in 0 .. progLen - 1.
C18_PushOutsideImage ==
    (Done1("PUSH") /\ InitSp - h1.sp < RamSize - progLen)
    => Idx(IntV(sp), RamSize) \notin 0 .. progLen - 1

\* The exclusive-or of two Python ints, bit by bit.
RECURSIVE BitXor(_, _)
BitXor(x, y) ==
    IF x = 0 THEN y
    ELSE IF y = 0 THEN x
    ELSE IF x = -1 THEN -y - 1
    ELSE IF y = -1 THEN -x - 1
    ELSE 2 * BitXor(x \div 2, y \div 2) + (((x % 2) + (y % 2)) % 2)

\* C19: XOR a,b on registers 0..7 holding integers stores in reg[a] the
\* bitwise exclusive-or of the prior reg[a] and reg[b], changes no other
\* register, and leaves the flags, the stack pointer and memory unchanged.
C19_Xor ==
    [][(/\ Dispatch("XOR")
        /\ IsReg(operand_a) /\ IsReg(operand_b)
        /\ IsInt(reg[operand_a.n]) /\ IsInt(reg[operand_b.n]))
       => (/\ err' = "none"
           /\ reg' = [reg EXCEPT ![operand_a.n] =
                        IntV(BitXor(reg[operand_a.n].n, reg[operand_b.n].n))]
           /\ UNCHANGED <<E_fl, L_fl, G_fl, sp, ram>>)]_vars

C19_Witness ==
    /\ Done1("XOR")
    /\ h1.a = IntV(0) /\ h1.b = IntV(1)
    /\ h1.reg[0] = IntV(-3) /\ h1.reg[1] = IntV(6)
    /\ reg[0] = IntV(-5)

====
